---- MODULE Spec2Model ----
(***************************************************************************)
(* A model of the Bedrock streaming client of langchain/dist/llms/bedrock  *)
(* (constructor, prepareInput, prepareOutput, _streamResponseChunks,       *)
(* _readChunks, _call) as a state machine: one client is constructed, one  *)
(* call is made on it, and the caller drives the async generator by        *)
(* pulling chunks (Spec, SpecBuild); several calls run on one client at    *)
(* once (SpecConcurrent).  With it, the HTTP server of server.js and       *)
(* chat.js (SpecServer) and the conversation state of App.js (SpecUI).     *)
(***************************************************************************)
EXTENDS Integers, Sequences, FiniteSets, TLC

VARIABLES
    constructed,  \* "new" | "ok" | "threw": the outcome of new Bedrock(fields)
    client,       \* the fields the constructor assigned (this.model, this.region, ...)
    call,         \* the arguments of the call: prompt, consumer, runManager, signal
    pc,           \* the position of the generator _streamResponseChunks
    stages,       \* history: the stages of the call in the order they happened
    signCount,    \* history: the calls of signer.sign
    fetchCount,   \* history: the calls of this.fetchFn
    request,      \* the HttpRequest built at lines 158-171 (None before)
    signedRequest,\* what signer.sign resolved with (None before)
    response,     \* the response fetchFn resolved with (None before)
    reader,       \* the body's reader: "none" (not taken) | "open" | "closed" | "errored"
    lastChunk,    \* the frame _readChunks yielded last (None before)
    pulls,        \* history: the next() requests of the caller
    reads,        \* history: the calls of reader.read()
    yielded,      \* history: the GenerationChunks yielded to the caller, in order
    observed,     \* history: the texts handed to runManager.handleLLMNewToken
    pendingToken, \* the text of the chunk whose handleLLMNewToken call is awaited
    aborted,      \* whether options.signal has fired
    abortedAfter, \* history: Some(N) when the signal fired mid-stream, N chunks yielded
    error,        \* the error the generator threw (NoError before)
    chunks,       \* _call's local array
    callState,    \* _call: "none" | "running" | "returned" | "threw"
    callResult,   \* _call's return value (None before, and when it throws)
    doneValue,    \* history: the value of the read result that said done (None before)
    lastEvents,   \* history: the framed events the last read's bytes held (0 before)
    filePath,     \* server.js: the module variable filePath
    uploads,      \* server.js, history: the paths the /upload handler stored
    chatting,     \* server.js: the /chat requests whose chat(...) is awaited
    answers,      \* server.js, history: the /chat requests answered
    conversation, \* App.js: the state conversation
    asking,       \* App.js: the questions under way, each with the handleResp it holds
    handled,      \* App.js, history: the calls of handleResp
    conc          \* the generators of the calls that run concurrently on the client

vars == <<constructed, client, call, pc, stages, signCount, fetchCount, request,
          signedRequest, response, reader, lastChunk, pulls, reads, yielded,
          observed, pendingToken, aborted, abortedAfter, error, chunks,
          callState, callResult, doneValue, lastEvents, filePath, uploads,
          chatting, answers, conversation, asking, handled, conc>>

serverVars == <<filePath, uploads, chatting, answers>>
uiVars == <<conversation, asking, handled>>

\* What the call followed in detail leaves alone.
outside == <<serverVars, uiVars, conc>>

\* The state of the call followed in detail.
streamVars == <<pc, call, stages, signCount, fetchCount, request,
                signedRequest, response, reader, lastChunk, pulls, reads,
                yielded, observed, pendingToken, aborted, abortedAfter, error,
                chunks, callState, callResult, doneValue, lastEvents>>

clientVars == <<constructed, client>>

----------------------------------------------------------------------------
(* JavaScript values.  undefined is None, a present value x is Some(x).     *)

None == << >>
Some(x) == << x >>
Get(o) == o[1]

\* a ?? b
Coalesce(a, b) == IF a = None THEN b ELSE a

----------------------------------------------------------------------------
(* Bounds of the model.                                                     *)

\* The frames one response body delivers before it must end.
MaxFrames == 2

\* The next() requests a caller makes of a generator that has ended.
MaxExtraPulls == 1

\* No caller makes more requests than one per frame, one for the end and
\* the extra ones.
MaxPulls == MaxFrames + 1 + MaxExtraPulls

\* The requests the HTTP server handles.
MaxRequests == 4

\* The questions asked in the UI.
MaxAsks == 3

\* The calls that run concurrently on one client, and the frames the
\* response of each delivers.
MaxCalls == 2
MaxConcFrames == 2

----------------------------------------------------------------------------
(* Model identifiers are sequences of tokens; "." is the separator token.   *)

Dot == "."

\* The index of the first separator in s, or Len(s) + 1.
RECURSIVE FirstSep(_, _)
FirstSep(s, i) ==
    IF i > Len(s) THEN i
    ELSE IF s[i] = Dot THEN i
    ELSE FirstSep(s, i + 1)

\* s.split(".")[0]
SplitFirst(s) == SubSeq(s, 1, FirstSep(s, 1) - 1)

DefaultModel == << "amazon", Dot, "titan-tg1-large" >>

allowedModels == { << "ai21" >>, << "anthropic" >>, << "amazon" >> }

\* The values of fields.model the model draws from.
ModelIds ==
    { None,
      Some(<< "amazon", Dot, "titan-tg1-large" >>),
      Some(<< "anthropic", Dot, "claude-v2" >>),
      Some(<< "ai21", Dot, "j2-mid" >>),
      Some(<< "unknown", Dot, "foo-v1" >>),
      Some(<< "anthropic" >>),
      Some(<< "amazon", "x", Dot, "v1" >>),
      Some(<< >>) }

\* fields.region and AWS_DEFAULT_REGION
FieldRegions == { None, Some(""), Some("us-east-1") }
EnvRegions == { None, Some("eu-west-1") }

\* !region
Falsy(r) == r = None \/ r = Some("")

FieldMaxTokens == { None, Some(10) }
FieldTemperatures == { None, Some(1) }
FieldCredentials == { None, Some("explicit") }

\* Every fields object of the values above.
AllFields ==
    [ model : ModelIds, region : FieldRegions, credentials : FieldCredentials,
      temperature : FieldTemperatures, maxTokens : FieldMaxTokens ]

\* The fields objects of the clients whose calls are followed to their end:
\* every model identifier, with or without a region and a token limit.
StreamFields ==
    [ model : ModelIds, region : { None, Some("us-east-1") },
      credentials : { None }, temperature : { None }, maxTokens : FieldMaxTokens ]

Prompts == { "Say hi", "" }

----------------------------------------------------------------------------
(* BedrockLLMInputOutputAdapter                                             *)

DefaultMaxTokens == 50
DefaultTemperature == 0

\* A parameter with a default value: the default applies to undefined.
DefaultParam(arg, dflt) == IF arg = None THEN dflt ELSE Get(arg)

\* The object {} with no property.
EmptyObject == [k \in {} |-> None]

\* prepareInput with the ai21 branch a copy of the anthropic one.
prepareInputCopied(provider, prompt, maxTokensArg, temperatureArg) ==
    LET maxTokens == DefaultParam(maxTokensArg, DefaultMaxTokens)
        temperature == DefaultParam(temperatureArg, DefaultTemperature)
    IN  IF provider = << "anthropic" >> \/ provider = << "ai21" >>
        THEN [ prompt |-> prompt,
               max_tokens_to_sample |-> maxTokens,
               temperature |-> temperature ]
        ELSE IF provider = << "amazon" >>
        THEN [ inputText |-> prompt,
               textGenerationConfig |->
                   [ maxTokenCount |-> maxTokens, temperature |-> temperature ] ]
        ELSE EmptyObject

prepareInput(provider, prompt, maxTokensArg, temperatureArg) ==
    LET maxTokens == DefaultParam(maxTokensArg, DefaultMaxTokens)
        temperature == DefaultParam(temperatureArg, DefaultTemperature)
    IN  IF provider = << "anthropic" >>
        THEN [ prompt |-> prompt,
               max_tokens_to_sample |-> maxTokens,
               temperature |-> temperature ]
        ELSE IF provider = << "ai21" >>
        THEN [ prompt |-> prompt,
               maxTokens |-> maxTokens,
               temperature |-> temperature ]
        ELSE IF provider = << "amazon" >>
        THEN [ inputText |-> prompt,
               textGenerationConfig |->
                   [ maxTokenCount |-> maxTokens, temperature |-> temperature ] ]
        ELSE EmptyObject

(* A decoded response body is an object with the properties completion,    *)
(* data and outputText, each possibly undefined; data, when present, is an  *)
(* object with the property text, possibly undefined.                       *)
BodyOf(completion, data, outputText) ==
    [ completion |-> completion, data |-> data, outputText |-> outputText ]

\* The result of an operation that may throw.
Returns(v) == [ ok |-> TRUE, value |-> v ]
Throws == [ ok |-> FALSE, value |-> None ]

\* prepareOutput that reads outputText whatever the provider.
prepareOutputOneField(provider, responseBody) == Returns(responseBody.outputText)

\* The value is the text read, None when the property read is undefined;
\* reading .text of an undefined data throws a TypeError.
prepareOutput(provider, responseBody) ==
    IF provider = << "anthropic" >>
    THEN Returns(responseBody.completion)
    ELSE IF provider = << "ai21" >>
    THEN IF responseBody.data = None
         THEN Throws
         ELSE Returns(Get(responseBody.data).text)
    ELSE Returns(responseBody.outputText)

----------------------------------------------------------------------------
(* The wire format.  A text is modelled by how it was produced: the JSON    *)
(* serialisation of a value, the base64 encoding of a text, or anything     *)
(* else (raw).  Parsing and decoding undo exactly the matching encoding.    *)

JsonOf(v) == [ enc |-> "json", val |-> v ]
Base64Of(t) == [ enc |-> "base64", val |-> t ]
Raw == [ enc |-> "raw", val |-> None ]

\* JSON.parse(text)
JSONparse(text) == IF text.enc = "json" THEN Returns(text.val) ELSE Throws

\* Buffer.from(s, "base64").toString(): throws on undefined, and decodes a
\* string that is no base64 of a text to bytes that are no JSON.
FromBase64(s) ==
    IF s = None THEN Throws
    ELSE IF Get(s).enc = "base64" THEN Returns(Get(s).val)
    ELSE Returns(Raw)

(* A frame read from the body: intact says whether the codec can decode it  *)
(* (lengths and checksums); the headers :event-type and :content-type may   *)
(* be absent; body is the payload text.                                     *)
Frame(intact, eventType, contentType, body) ==
    [ intact |-> intact,
      headers |-> [ eventType |-> eventType, contentType |-> contentType ],
      body |-> body ]

\* this.codec.decode(chunk)
codecDecode(chunk) ==
    IF chunk.intact
    THEN Returns([ headers |-> chunk.headers, body |-> chunk.body ])
    ELSE Throws

\* The payload of a frame that wraps a response body as the service does.
Wrap(body) == JsonOf([ bytes |-> Some(Base64Of(JsonOf(body))) ])

ChunkFrame(body) == Frame(TRUE, Some("chunk"), Some("application/json"), Wrap(body))

\* The response bodies the frames carry: each provider's shape with two
\* texts, the empty text, and bodies that lack the field.
Bodies ==
    << BodyOf(None, None, Some("hi")),
       BodyOf(None, None, Some("a")),
       BodyOf(None, None, Some("")),
       BodyOf(Some("hi"), None, None),
       BodyOf(Some("a"), None, None),
       BodyOf(None, Some([ text |-> Some("hi") ]), None),
       BodyOf(None, Some([ text |-> Some("a") ]), None),
       BodyOf(None, Some([ text |-> None ]), None),
       BodyOf(None, None, None) >>

\* The frames a read may deliver: well-formed chunks of each body, and one
\* frame for each way the decoding of lines 190-196 can fail.
Frames ==
    [ i \in 1..Len(Bodies) |-> ChunkFrame(Bodies[i]) ] \o
    << Frame(FALSE, Some("chunk"), Some("application/json"), Wrap(Bodies[1])),
       Frame(TRUE, Some("error"), Some("application/json"), Wrap(Bodies[1])),
       Frame(TRUE, Some("chunk"), Some("text/plain"), Wrap(Bodies[1])),
       Frame(TRUE, None, Some("application/json"), Wrap(Bodies[1])),
       Frame(TRUE, Some("chunk"), None, Wrap(Bodies[1])),
       Frame(TRUE, Some("chunk"), Some("application/json"), Raw),
       Frame(TRUE, Some("chunk"), Some("application/json"), JsonOf([ bytes |-> None ])),
       Frame(TRUE, Some("chunk"), Some("application/json"),
             JsonOf([ bytes |-> Some(Raw) ])),
       Frame(TRUE, Some("chunk"), Some("application/json"),
             JsonOf([ bytes |-> Some(Base64Of(Raw)) ])) >>

\* The check of lines 191-192 without its second condition.
EventAcceptedTypeOnly(event) ==
    /\ event.headers.eventType # None
    /\ Get(event.headers.eventType) = "chunk"

\* Lines 191-192: whether the event is accepted.  Reading .value of an
\* absent header throws, which rejects the event as well.
EventAccepted(event) ==
    /\ event.headers.eventType # None
    /\ Get(event.headers.eventType) = "chunk"
    /\ event.headers.contentType # None
    /\ Get(event.headers.contentType) = "application/json"

\* Lines 190-196: the text of the chunk a frame yields, or a throw.
DecodeChunk(provider, chunk) ==
    LET event == codecDecode(chunk) IN
    IF ~event.ok THEN Throws
    ELSE IF ~EventAccepted(event.value) THEN Throws
    ELSE LET envelope == JSONparse(event.value.body) IN
    IF ~envelope.ok THEN Throws
    ELSE LET inner == FromBase64(envelope.value.bytes) IN
    IF ~inner.ok THEN Throws
    ELSE LET body == JSONparse(inner.value) IN
    IF ~body.ok THEN Throws
    ELSE prepareOutput(provider, body.value)

\* new GenerationChunk({ text, generationInfo: {} })
GenerationChunk(text) == [ text |-> text, generationInfo |-> EmptyObject ]

----------------------------------------------------------------------------
(* Errors                                                                   *)

NoError == [ kind |-> "none", status |-> None, statusText |-> None, text |-> None ]
ErrorOf(kind) == [ NoError EXCEPT !.kind = kind ]

\* Line 186: Error(`... got ${status} ${statusText}: ${await response.text()}`)
StatusError(resp) ==
    [ kind |-> "status",
      status |-> Some(resp.status),
      statusText |-> Some(resp.statusText),
      text |-> Some(resp.text) ]

----------------------------------------------------------------------------
(* The constructor                                                          *)

\* Constructor without the check of lines 127-129.
ConstructorNoRegionCheck(fields, envRegion) ==
    LET model == Coalesce(fields.model, Some(DefaultModel))
        region == Coalesce(fields.region, envRegion)
    IN  IF SplitFirst(Get(model)) \notin allowedModels THEN Throws
        ELSE Returns([ model |-> Get(model),
                       region |-> region,
                       credentials |-> Coalesce(fields.credentials, Some("default")),
                       temperature |-> fields.temperature,
                       maxTokens |-> fields.maxTokens ])

\* Lines 121-134: the object constructed from fields and the environment, or
\* a throw.
Constructor(fields, envRegion) ==
    LET model == Coalesce(fields.model, Some(DefaultModel))
        region == Coalesce(fields.region, envRegion)
    IN  IF SplitFirst(Get(model)) \notin allowedModels THEN Throws
        ELSE IF Falsy(region) THEN Throws
        ELSE Returns([ model |-> Get(model),
                       region |-> Get(region),
                       credentials |-> Coalesce(fields.credentials, Some("default")),
                       temperature |-> fields.temperature,
                       maxTokens |-> fields.maxTokens ])

\* new Bedrock(fields), fields drawn from F, in an environment whose
\* AWS_DEFAULT_REGION is drawn from E.
ConstructFrom(F, E) ==
    /\ constructed = "new"
    /\ \E fields \in F, envRegion \in E :
          LET r == Constructor(fields, envRegion) IN
          /\ constructed' = IF r.ok THEN "ok" ELSE "threw"
          /\ client' = IF r.ok THEN Some(r.value) ELSE None
    /\ UNCHANGED <<call, pc, stages, signCount, fetchCount, request, response,
                   reader, pulls, reads, yielded, observed, pendingToken,
                   aborted, error, chunks, callState, callResult>>
    /\ UNCHANGED <<signedRequest, lastChunk, abortedAfter>>
    /\ UNCHANGED <<doneValue, lastEvents, outside>>

Construct == ConstructFrom(StreamFields, EnvRegions)

ConstructAny == ConstructFrom(AllFields, EnvRegions)

----------------------------------------------------------------------------
(* The call                                                                 *)

Terminal == { "completed", "failed", "cancelled", "returned" }
Suspended == { "start", "yielded" }
Streaming == { "reading", "yielded", "observing" }

\* Line 154
Provider == SplitFirst(Get(client).model)

\* consumer "call" is _call's for await loop; "stream" is a caller that
\* iterates the generator itself.
Calls ==
    [ prompt : Prompts, consumer : { "call", "stream" },
      runManager : BOOLEAN, signal : BOOLEAN ]

\* Calling _streamResponseChunks creates the generator; no line of its body
\* runs before the first next().
StartCall ==
    /\ constructed = "ok"
    /\ pc = "none"
    /\ \E c \in Calls :
          /\ call' = Some(c)
          /\ callState' = IF c.consumer = "call" THEN "running" ELSE "none"
    /\ pc' = "start"
    /\ UNCHANGED <<constructed, client, stages, signCount, fetchCount, request,
                   response, reader, pulls, reads, yielded, observed,
                   pendingToken, aborted, error, chunks, callResult>>
    /\ UNCHANGED <<signedRequest, lastChunk, abortedAfter>>
    /\ UNCHANGED <<doneValue, lastEvents, outside>>

\* Lines 154-171
BuildRequest ==
    [ method |-> "POST",
      region |-> Get(client).region,
      model |-> Get(client).model,
      body |-> JsonOf(prepareInput(Provider, Get(call).prompt,
                                   Get(client).maxTokens, Get(client).temperature)) ]

\* The generator throws err: it ends, and _call's loop, if it is the
\* consumer, throws err in turn.
Fail(err) ==
    /\ pc' = "failed"
    /\ error' = err
    /\ callState' = IF Get(call).consumer = "call" THEN "threw" ELSE callState

\* The first next(): lines 154-178 run to the await of signer.sign(request).
PullFirst ==
    /\ pc = "start"
    /\ pulls' = pulls + 1
    /\ request' = Some(BuildRequest)
    /\ signCount' = signCount + 1
    /\ stages' = stages \o << "build", "sign" >>
    /\ pc' = "signing"
    /\ UNCHANGED <<constructed, client, call, fetchCount, response, reader,
                   reads, yielded, observed, pendingToken, aborted, error,
                   chunks, callState, callResult>>
    /\ UNCHANGED <<signedRequest, lastChunk, abortedAfter>>
    /\ UNCHANGED <<doneValue, lastEvents, outside>>

\* signer.sign(request): the request with the signature headers added.
Sign(req) == [ method |-> req.method, body |-> req.body, signed |-> TRUE ]

\* signer.sign resolves: line 180 dispatches the request through fetchFn.
SignResolve ==
    /\ pc = "signing"
    /\ signedRequest' = Some(Sign(Get(request)))
    /\ pc' = "connecting"
    /\ fetchCount' = fetchCount + 1
    /\ stages' = Append(stages, "dispatch")
    /\ UNCHANGED <<constructed, client, call, signCount, request, response,
                   reader, pulls, reads, yielded, observed, pendingToken,
                   aborted, error, chunks, callState, callResult>>
    /\ UNCHANGED <<lastChunk, abortedAfter>>
    /\ UNCHANGED <<doneValue, lastEvents, outside>>

\* A rejected sign whose error is dropped: the request is dispatched unsigned.
SignRejectIgnored ==
    /\ pc = "signing"
    /\ pc' = "connecting"
    /\ fetchCount' = fetchCount + 1
    /\ stages' = Append(stages, "dispatch")
    /\ UNCHANGED <<constructed, client, call, signCount, request, signedRequest,
                   response, reader, lastChunk, pulls, reads, yielded, observed,
                   pendingToken, aborted, abortedAfter, error, chunks,
                   callState, callResult>>
    /\ UNCHANGED <<doneValue, lastEvents, outside>>

\* signer.sign rejects (the credentials cannot be resolved): line 178 throws.
SignReject ==
    /\ pc = "signing"
    /\ Fail(ErrorOf("sign"))
    /\ UNCHANGED <<constructed, client, call, stages, signCount, fetchCount,
                   request, response, reader, pulls, reads, yielded, observed,
                   pendingToken, aborted, chunks, callResult>>
    /\ UNCHANGED <<signedRequest, lastChunk, abortedAfter>>
    /\ UNCHANGED <<doneValue, lastEvents, outside>>

\* The responses fetchFn may resolve with.
Statuses == { 199, 200, 299, 300, 403 }

StatusText(status) ==
    CASE status = 199 -> "Early"
      [] status = 200 -> "OK"
      [] status = 299 -> "Odd"
      [] status = 300 -> "Multiple Choices"
      [] status = 403 -> "Forbidden"

Responses ==
    { [ status |-> st, statusText |-> StatusText(st), text |-> tx, hasBody |-> hb ] :
        st \in Statuses, tx \in { "denied" }, hb \in BOOLEAN }

\* The status check with its upper limit off by one.
StatusOkOffByOne(status) == ~(status < 200 \/ status > 300)

\* Line 185, negated: the status lets the call go on to the body.
StatusOk(status) == ~(status < 200 \/ status >= 300)

\* A client that dispatches the request again when the response's status is
\* not a success, once, before it gives up.
FetchResolveRetries ==
    /\ pc = "connecting"
    /\ \E resp \in Responses :
          /\ response' = Some(resp)
          /\ IF ~StatusOk(resp.status) /\ fetchCount < 2
             THEN /\ fetchCount' = fetchCount + 1
                  /\ UNCHANGED <<pc, stages, reader, reads, error, callState>>
             ELSE IF ~StatusOk(resp.status)
             THEN /\ pc' = "text"
                  /\ stages' = Append(stages, "validate")
                  /\ UNCHANGED <<fetchCount, reader, reads, error, callState>>
             ELSE IF resp.hasBody
             THEN /\ reader' = "open"
                  /\ reads' = reads + 1
                  /\ pc' = "reading"
                  /\ stages' = stages \o << "validate", "stream" >>
                  /\ UNCHANGED <<fetchCount, error, callState>>
             ELSE /\ Fail(ErrorOf("type"))
                  /\ stages' = stages \o << "validate", "stream" >>
                  /\ UNCHANGED <<fetchCount, reader, reads>>
    /\ UNCHANGED <<constructed, client, call, signCount, request,
                   pulls, yielded, observed, pendingToken, aborted, chunks,
                   callResult>>
    /\ UNCHANGED <<signedRequest, lastChunk, abortedAfter>>
    /\ UNCHANGED <<doneValue, lastEvents, outside>>

\* fetchFn resolves with resp: line 185 checks the status; a bad status
\* awaits response.text() (line 186); a good one takes the reader (line 188)
\* and _readChunks issues the first reader.read() (line 208), which throws a
\* TypeError when the response has no body (reader is undefined).
FetchResolve ==
    /\ pc = "connecting"
    /\ \E resp \in Responses :
          /\ response' = Some(resp)
          /\ IF ~StatusOk(resp.status)
             THEN /\ pc' = "text"
                  /\ stages' = Append(stages, "validate")
                  /\ UNCHANGED <<reader, reads, error, callState>>
             ELSE IF resp.hasBody
             THEN /\ reader' = "open"
                  /\ reads' = reads + 1
                  /\ pc' = "reading"
                  /\ stages' = stages \o << "validate", "stream" >>
                  /\ UNCHANGED <<error, callState>>
             ELSE /\ Fail(ErrorOf("type"))
                  /\ stages' = stages \o << "validate", "stream" >>
                  /\ UNCHANGED <<reader, reads>>
    /\ UNCHANGED <<constructed, client, call, signCount, fetchCount, request,
                   pulls, yielded, observed, pendingToken, aborted, chunks,
                   callResult>>
    /\ UNCHANGED <<signedRequest, lastChunk, abortedAfter>>
    /\ UNCHANGED <<doneValue, lastEvents, outside>>

\* fetchFn rejects: the await of line 180 throws.
FetchReject ==
    /\ pc = "connecting"
    /\ Fail(ErrorOf("fetch"))
    /\ UNCHANGED <<constructed, client, call, stages, signCount, fetchCount,
                   request, response, reader, pulls, reads, yielded, observed,
                   pendingToken, aborted, chunks, callResult>>
    /\ UNCHANGED <<signedRequest, lastChunk, abortedAfter>>
    /\ UNCHANGED <<doneValue, lastEvents, outside>>

\* response.text() resolves: line 186 throws the status error.
TextResolve ==
    /\ pc = "text"
    /\ Fail(StatusError(Get(response)))
    /\ UNCHANGED <<constructed, client, call, stages, signCount, fetchCount,
                   request, response, reader, pulls, reads, yielded, observed,
                   pendingToken, aborted, chunks, callResult>>
    /\ UNCHANGED <<signedRequest, lastChunk, abortedAfter>>
    /\ UNCHANGED <<doneValue, lastEvents, outside>>

\* options.signal fires while the call is under way.
SignalAbort ==
    /\ pc \notin Terminal \cup { "none" }
    /\ Get(call).signal
    /\ ~aborted
    /\ aborted' = TRUE
    /\ abortedAfter' = IF pc \in Streaming THEN Some(Len(yielded)) ELSE None
    /\ UNCHANGED <<constructed, client, call, pc, stages, signCount, fetchCount,
                   request, response, reader, pulls, reads, yielded, observed,
                   pendingToken, error, chunks, callState, callResult>>
    /\ UNCHANGED <<signedRequest, lastChunk>>
    /\ UNCHANGED <<doneValue, lastEvents, outside>>

\* this.caller.callWithOptions({ signal }, ...) of line 180: the signal ends
\* the wait for fetchFn in the Cancelled outcome.
callWithOptionsAborted ==
    /\ pc = "connecting"
    /\ aborted
    /\ pc' = "cancelled"
    /\ error' = ErrorOf("abort")
    /\ callState' = IF Get(call).consumer = "call" THEN "threw" ELSE callState
    /\ UNCHANGED <<constructed, client, call, stages, signCount, fetchCount,
                   request, response, reader, pulls, reads, yielded, observed,
                   pendingToken, aborted, chunks, callResult>>
    /\ UNCHANGED <<signedRequest, lastChunk, abortedAfter>>
    /\ UNCHANGED <<doneValue, lastEvents, outside>>

----------------------------------------------------------------------------
(* The read loop: lines 189-202 and _readChunks, lines 205-215              *)

\* chunks.map((chunk) => chunk.text).join(""): join writes an undefined
\* element as the empty string.
RECURSIVE JoinTexts(_)
JoinTexts(cs) ==
    IF cs = << >> THEN ""
    ELSE (IF cs[1].text = None THEN "" ELSE Get(cs[1].text)) \o JoinTexts(Tail(cs))

\* chunks.unshift(chunk) in the place of chunks.push(chunk).
PushFront(cs, chunk) == << chunk >> \o cs

\* Line 149: chunks.push(chunk)
Push(cs, chunk) == Append(cs, chunk)

\* A generator that reads ahead: as soon as it has yielded a chunk it
\* issues the next reader.read(), whether or not the caller has asked.
ReadFrameEager ==
    /\ pc = "reading"
    /\ reads <= MaxFrames
    /\ \E i \in 1..Len(Frames) :
          LET r == DecodeChunk(Provider, Frames[i]) IN
          /\ lastChunk' = Some(Frames[i])
          /\ lastEvents' = 1
          /\ IF r.ok
             THEN /\ yielded' = Append(yielded, GenerationChunk(r.value))
                  /\ pendingToken' = r.value
                  /\ chunks' = IF Get(call).consumer = "call"
                               THEN Push(chunks, GenerationChunk(r.value))
                               ELSE chunks
                  /\ pc' = "reading"
                  /\ reads' = reads + 1
                  /\ UNCHANGED <<error, callState>>
             ELSE /\ Fail(ErrorOf("decode"))
                  /\ UNCHANGED <<yielded, pendingToken, chunks, reads>>
    /\ UNCHANGED <<constructed, client, call, stages, signCount, fetchCount,
                   request, response, reader, pulls, observed, aborted,
                   callResult>>
    /\ UNCHANGED <<signedRequest, abortedAfter>>
    /\ UNCHANGED <<doneValue, outside>>

\* reader.read() resolves with a frame: _readChunks yields it (line 210),
\* lines 190-196 decode it and line 197 yields the chunk to the caller; a
\* frame that does not decode throws.
ReadFrame ==
    /\ pc = "reading"
    /\ reads <= MaxFrames
    /\ \E i \in 1..Len(Frames) :
          LET r == DecodeChunk(Provider, Frames[i]) IN
          /\ lastChunk' = Some(Frames[i])
          /\ lastEvents' = 1
          /\ IF r.ok
             THEN /\ yielded' = Append(yielded, GenerationChunk(r.value))
                  /\ pendingToken' = r.value
                  /\ chunks' = IF Get(call).consumer = "call"
                               THEN Push(chunks, GenerationChunk(r.value))
                               ELSE chunks
                  /\ pc' = "yielded"
                  /\ UNCHANGED <<error, callState>>
             ELSE /\ Fail(ErrorOf("decode"))
                  /\ UNCHANGED <<yielded, pendingToken, chunks>>
    /\ UNCHANGED <<constructed, client, call, stages, signCount, fetchCount,
                   request, response, reader, pulls, reads, observed, aborted,
                   callResult>>
    /\ UNCHANGED <<signedRequest, abortedAfter>>
    /\ UNCHANGED <<doneValue, outside>>

\* The bytes of one read that hold two framed events one after the other.
Coalesced == { << Frames[1], Frames[2] >> }

\* Lines 189-196 for the bytes of one read: line 190 hands them to one
\* codec.decode call and the loop body yields once.  Bytes that hold more
\* than one message are either rejected by the codec (rejects) or decoded as
\* the message their length prefix delimits, the first one.
DecodeRead(provider, value, rejects) ==
    IF Len(value) > 1 /\ rejects
    THEN Throws
    ELSE DecodeChunk(provider, value[1])

\* reader.read() resolves with bytes that hold more than one framed event.
\* lastChunk keeps the first of them.
ReadMany ==
    /\ pc = "reading"
    /\ reads <= MaxFrames
    /\ \E value \in Coalesced, rejects \in BOOLEAN :
          LET r == DecodeRead(Provider, value, rejects) IN
          /\ lastChunk' = Some(value[1])
          /\ lastEvents' = Len(value)
          /\ IF r.ok
             THEN /\ yielded' = Append(yielded, GenerationChunk(r.value))
                  /\ pendingToken' = r.value
                  /\ chunks' = IF Get(call).consumer = "call"
                               THEN Push(chunks, GenerationChunk(r.value))
                               ELSE chunks
                  /\ pc' = "yielded"
                  /\ UNCHANGED <<error, callState>>
             ELSE /\ Fail(ErrorOf("decode"))
                  /\ UNCHANGED <<yielded, pendingToken, chunks>>
    /\ UNCHANGED <<constructed, client, call, stages, signCount, fetchCount,
                   request, response, reader, pulls, reads, observed, aborted,
                   callResult>>
    /\ UNCHANGED <<signedRequest, abortedAfter>>
    /\ UNCHANGED <<doneValue, outside>>

\* What a read result that says done may carry as its value: nothing, or
\* bytes (line 208 does not look at the value of a done result).
DoneValues == { None, Some(Frames[1]) }

\* A loop that handles the result before it tests done: the value of the
\* done result is decoded and yielded like a frame.
ReadDoneProcessesValue ==
    /\ pc = "reading"
    /\ pc' = "completed"
    /\ reader' = "closed"
    /\ \E v \in DoneValues :
          /\ doneValue' = Some(v)
          /\ IF v = None
             THEN UNCHANGED <<yielded, lastChunk>>
             ELSE /\ lastChunk' = v
                  /\ yielded' = Append(yielded,
                         GenerationChunk(DecodeChunk(Provider, Get(v)).value))
    /\ IF Get(call).consumer = "call"
       THEN /\ callState' = "returned"
            /\ callResult' = Some(JoinTexts(chunks))
       ELSE UNCHANGED <<callState, callResult>>
    /\ UNCHANGED <<constructed, client, call, stages, signCount, fetchCount,
                   request, response, pulls, reads, observed,
                   pendingToken, aborted, error, chunks>>
    /\ UNCHANGED <<signedRequest, abortedAfter>>
    /\ UNCHANGED <<lastEvents, outside>>

\* reader.read() resolves with done: the loop of line 209 ends without
\* looking at the result's value, the generator returns, and _call returns
\* the joined text (line 151).
ReadDone ==
    /\ pc = "reading"
    /\ pc' = "completed"
    /\ reader' = "closed"
    /\ \E v \in DoneValues : doneValue' = Some(v)
    /\ IF Get(call).consumer = "call"
       THEN /\ callState' = "returned"
            /\ callResult' = Some(JoinTexts(chunks))
       ELSE UNCHANGED <<callState, callResult>>
    /\ UNCHANGED <<constructed, client, call, stages, signCount, fetchCount,
                   request, response, pulls, reads, yielded, observed,
                   pendingToken, aborted, error, chunks>>
    /\ UNCHANGED <<signedRequest, lastChunk, abortedAfter>>
    /\ UNCHANGED <<lastEvents, outside>>

\* reader.read() rejects: the transport failed mid-stream.
ReadReject ==
    /\ pc = "reading"
    /\ Fail(ErrorOf("read"))
    /\ reader' = "errored"
    /\ UNCHANGED <<constructed, client, call, stages, signCount, fetchCount,
                   request, response, pulls, reads, yielded, observed,
                   pendingToken, aborted, chunks, callResult>>
    /\ UNCHANGED <<signedRequest, lastChunk, abortedAfter>>
    /\ UNCHANGED <<doneValue, lastEvents, outside>>

\* The caller asks for the next chunk: the generator resumes after the yield
\* of line 197.  Line 201 calls the observer when there is a runManager and
\* awaits it; without one the loop goes on to the next reader.read().
PullNext ==
    /\ pc = "yielded"
    /\ pulls' = pulls + 1
    /\ IF Get(call).runManager
       THEN /\ observed' = Append(observed, pendingToken)
            /\ pc' = "observing"
            /\ UNCHANGED reads
       ELSE /\ reads' = reads + 1
            /\ pc' = "reading"
            /\ UNCHANGED observed
    /\ UNCHANGED <<constructed, client, call, stages, signCount, fetchCount,
                   request, response, reader, yielded, pendingToken, aborted,
                   error, chunks, callState, callResult>>
    /\ UNCHANGED <<signedRequest, lastChunk, abortedAfter>>
    /\ UNCHANGED <<doneValue, lastEvents, outside>>

\* handleLLMNewToken resolves: line 211 issues the next reader.read().
ObserverResolve ==
    /\ pc = "observing"
    /\ reads' = reads + 1
    /\ pc' = "reading"
    /\ UNCHANGED <<constructed, client, call, stages, signCount, fetchCount,
                   request, response, reader, pulls, yielded, observed,
                   pendingToken, aborted, error, chunks, callState, callResult>>
    /\ UNCHANGED <<signedRequest, lastChunk, abortedAfter>>
    /\ UNCHANGED <<doneValue, lastEvents, outside>>

\* handleLLMNewToken rejects: nothing around the await of line 201 catches.
ObserverReject ==
    /\ pc = "observing"
    /\ Fail(ErrorOf("observer"))
    /\ UNCHANGED <<constructed, client, call, stages, signCount, fetchCount,
                   request, response, reader, pulls, reads, yielded, observed,
                   pendingToken, aborted, chunks, callResult>>
    /\ UNCHANGED <<signedRequest, lastChunk, abortedAfter>>
    /\ UNCHANGED <<doneValue, lastEvents, outside>>

\* A caller that iterates the generator itself abandons it (return()): the
\* generator, suspended at its start or at the yield of line 197, ends, and
\* so does _readChunks' generator; neither has a finally block.
Return ==
    /\ pc \in Suspended
    /\ Get(call).consumer = "stream"
    /\ pc' = "returned"
    /\ UNCHANGED <<constructed, client, call, stages, signCount, fetchCount,
                   request, response, reader, pulls, reads, yielded, observed,
                   pendingToken, aborted, error, chunks, callState, callResult>>
    /\ UNCHANGED <<signedRequest, lastChunk, abortedAfter>>
    /\ UNCHANGED <<doneValue, lastEvents, outside>>

\* next() on the generator after it ended (it returned, threw or was
\* returned): the request is answered done at once and no line of the
\* body runs.
PullAfterEnd ==
    /\ pc \in Terminal
    /\ Get(call).consumer = "stream"
    /\ pulls < MaxPulls
    /\ pulls' = pulls + 1
    /\ UNCHANGED <<constructed, client, call, pc, stages, signCount, fetchCount,
                   request, signedRequest, response, reader, lastChunk, reads,
                   yielded, observed, pendingToken, aborted, abortedAfter,
                   error, chunks, callState, callResult>>
    /\ UNCHANGED <<doneValue, lastEvents, outside>>

----------------------------------------------------------------------------
(* The HTTP server (server.js) and chat (chat.js)                           *)

Clients == { "A", "B" }
FileNames == { "a.pdf", "b.pdf" }
Questions == { "q1", "q2" }

\* chat's default for filePath (chat.js line 12)
DefaultFilePath == "./uploads/hbs-lean-startup.pdf"

\* multer's diskStorage: destination "uploads/", filename file.originalname
\* (server.js lines 14-22); req.file.path joins the two.
StoredPath(originalname) == "uploads/" \o originalname

\* chat that ignores its argument and loads the default document.
chatPathDefaultOnly(filePathArg) == DefaultFilePath

\* chat.js line 12: the path chat loads, the default when filePath is
\* undefined.
chatPath(filePathArg) == DefaultParam(filePathArg, DefaultFilePath)

\* The requests handled so far.
Requests == Len(uploads) + Len(chatting) + Len(answers)

\* POST /upload (server.js lines 28-32).  With a file, the handler stores
\* req.file.path in filePath; without one req.file is undefined, the handler
\* throws at line 29 and filePath stays.  uploads logs the request with the
\* path it stored, None when it stored none.
Upload ==
    /\ Requests < MaxRequests
    /\ \E c \in Clients, file \in { None } \cup { Some(n) : n \in FileNames } :
          IF file = None
          THEN /\ uploads' = Append(uploads, [ client |-> c, path |-> None ])
               /\ UNCHANGED filePath
          ELSE /\ filePath' = Some(StoredPath(Get(file)))
               /\ uploads' = Append(uploads,
                      [ client |-> c, path |-> Some(StoredPath(Get(file))) ])
    /\ UNCHANGED <<chatting, answers>>
    /\ UNCHANGED <<clientVars, streamVars, uiVars, conc>>

\* GET /chat (server.js lines 34-35): chat(filePath, question) is called with
\* the value filePath has now and awaited.  after is history: the uploads
\* handled before this request.
ChatStart ==
    /\ Requests < MaxRequests
    /\ \E c \in Clients, q \in Questions :
          chatting' = Append(chatting,
              [ client |-> c, question |-> q, path |-> chatPath(filePath),
                after |-> Len(uploads) ])
    /\ UNCHANGED <<filePath, uploads, answers>>
    /\ UNCHANGED <<clientVars, streamVars, uiVars, conc>>

\* s without its i-th element
RemoveAt(s, i) == SubSeq(s, 1, i - 1) \o SubSeq(s, i + 1, Len(s))

\* chat resolves: res.send(resp.text) answers the request (line 36) from the
\* document chat loaded.
ChatResolve ==
    /\ \E i \in 1..Len(chatting) :
          /\ answers' = Append(answers, chatting[i])
          /\ chatting' = RemoveAt(chatting, i)
    /\ UNCHANGED <<filePath, uploads>>
    /\ UNCHANGED <<clientVars, streamVars, uiVars, conc>>

NextServer ==
    \/ Upload
    \/ ChatStart
    \/ ChatResolve

----------------------------------------------------------------------------
(* The UI (App.js)                                                          *)

AnswerTexts == { "yes", "no" }

\* The questions asked so far.
Asks == Len(asking) + Len(handled)

\* A question is sent: the sender keeps the handleResp of the current render
\* (line 64) to call it when the answer arrives.  That handleResp closes
\* over the value conversation has in this render (lines 26, 31-33).
Ask ==
    /\ Asks < MaxAsks
    /\ \E q \in Questions :
          asking' = Append(asking, [ question |-> q, conversation |-> conversation ])
    /\ UNCHANGED <<conversation, handled>>
    /\ UNCHANGED <<clientVars, streamVars, serverVars, conc>>

\* handleResp(question, answer), lines 31-33, called through the closure a
\* sender kept: setConversation([...conversation, { question, answer }])
\* with the closure's conversation; the state becomes that list and the
\* component renders again.
handleResp ==
    /\ \E i \in 1..Len(asking), answer \in AnswerTexts :
          LET entry == [ question |-> asking[i].question, answer |-> answer ] IN
          /\ conversation' = Append(asking[i].conversation, entry)
          /\ handled' = Append(handled, entry)
          /\ asking' = RemoveAt(asking, i)
    /\ UNCHANGED <<clientVars, streamVars, serverVars, conc>>

NextUI ==
    \/ Ask
    \/ handleResp

----------------------------------------------------------------------------
(* Concurrent calls on one client.  Each call of _streamResponseChunks is   *)
(* a generator of its own; conc[c] holds its position (pc), what its        *)
(* response delivered (status, fed, in the order read), the local variable  *)
(* reader (the call whose response body it reads, 0 before line 188), and   *)
(* what its caller got (got, error).                                        *)

CallIds == 1..MaxCalls

ConcIdle ==
    [ pc |-> "none", status |-> None, reader |-> 0, fed |-> << >>,
      got |-> << >>, error |-> "none" ]

\* The clients the concurrent calls are made on.
ConcFields ==
    [ model : { Some(<< "amazon", Dot, "titan-tg1-large" >>),
                Some(<< "anthropic", Dot, "claude-v2" >>) },
      region : { Some("us-east-1") }, credentials : { None },
      temperature : { None }, maxTokens : { None } ]

ConstructConc == ConstructFrom(ConcFields, { None })

\* The frames the responses deliver: an amazon chunk, an anthropic chunk
\* and an error event.
ConcFrames == { Frames[1], Frames[4], Frames[11] }

\* A client that keeps what lines 154-188 declare with const in one place
\* for all its calls.
SlotShared(c) == 1

\* Where the variables that lines 154-188 declare with const live for call
\* c: in the invocation's own scope.
Slot(c) == c

\* client.stream(prompt): the generator object of call c is created.
ConcStart(c) ==
    /\ constructed = "ok"
    /\ conc[c].pc = "none"
    /\ conc' = [conc EXCEPT ![c].pc = "start"]
    /\ UNCHANGED <<clientVars, streamVars, serverVars, uiVars>>

\* next(): the first one runs lines 154-178 to the await of signer.sign, a
\* later one resumes after the yield and issues the next reader.read().
ConcPull(c) ==
    /\ conc[c].pc \in Suspended
    /\ conc' = [conc EXCEPT ![c].pc = IF conc[c].pc = "start" THEN "signing"
                                      ELSE "reading"]
    /\ UNCHANGED <<clientVars, streamVars, serverVars, uiVars>>

\* signer.sign resolves, fetchFn is called (lines 178-184); or it rejects.
ConcSign(c) ==
    /\ conc[c].pc = "signing"
    /\ \E ok \in BOOLEAN :
          conc' = IF ok THEN [conc EXCEPT ![c].pc = "connecting"]
                  ELSE [conc EXCEPT ![c].pc = "failed", ![c].error = "sign"]
    /\ UNCHANGED <<clientVars, streamVars, serverVars, uiVars>>

\* fetchFn resolves (lines 185-189): a bad status fails the call, a good one
\* takes the reader of this call's response body and issues the first read.
ConcFetch(c) ==
    /\ conc[c].pc = "connecting"
    /\ \E status \in { 200, 403 } :
          conc' = IF ~StatusOk(status)
                  THEN [conc EXCEPT ![c].status = Some(status),
                                    ![c].pc = "failed",
                                    ![c].error = "status"]
                  ELSE [conc EXCEPT ![c].status = Some(status),
                                    ![Slot(c)].reader = c,
                                    ![c].pc = "reading"]
    /\ UNCHANGED <<clientVars, streamVars, serverVars, uiVars>>

\* reader.read() of call c resolves with a frame of the body its reader
\* reads (lines 189-200): the frame is decoded for the client's provider and
\* yielded to c's caller, or the call fails.
ConcRead(c) ==
    /\ conc[c].pc = "reading"
    /\ LET r == conc[Slot(c)].reader IN
       /\ Len(conc[r].fed) < MaxConcFrames
       /\ \E frame \in ConcFrames :
             LET d == DecodeChunk(Provider, frame) IN
             conc' = IF d.ok
                     THEN [conc EXCEPT ![r].fed = Append(@, frame),
                                       ![c].got = Append(@, GenerationChunk(d.value)),
                                       ![c].pc = "yielded"]
                     ELSE [conc EXCEPT ![r].fed = Append(@, frame),
                                       ![c].pc = "failed",
                                       ![c].error = "decode"]
    /\ UNCHANGED <<clientVars, streamVars, serverVars, uiVars>>

\* reader.read() of call c says done (the generator returns) or rejects.
ConcEnd(c) ==
    /\ conc[c].pc = "reading"
    /\ \E done \in BOOLEAN :
          conc' = IF done THEN [conc EXCEPT ![c].pc = "completed"]
                  ELSE [conc EXCEPT ![c].pc = "failed", ![c].error = "read"]
    /\ UNCHANGED <<clientVars, streamVars, serverVars, uiVars>>

NextConcurrent ==
    \/ ConstructConc
    \/ \E c \in CallIds :
          \/ ConcStart(c)
          \/ ConcPull(c)
          \/ ConcSign(c)
          \/ ConcFetch(c)
          \/ ConcRead(c)
          \/ ConcEnd(c)

----------------------------------------------------------------------------
(* The specification                                                        *)

Init ==
    /\ constructed = "new"
    /\ client = None
    /\ call = None
    /\ pc = "none"
    /\ stages = << >>
    /\ signCount = 0
    /\ fetchCount = 0
    /\ request = None
    /\ signedRequest = None
    /\ response = None
    /\ reader = "none"
    /\ lastChunk = None
    /\ pulls = 0
    /\ reads = 0
    /\ yielded = << >>
    /\ observed = << >>
    /\ pendingToken = None
    /\ aborted = FALSE
    /\ abortedAfter = None
    /\ error = NoError
    /\ chunks = << >>
    /\ callState = "none"
    /\ callResult = None
    /\ doneValue = None
    /\ lastEvents = 0
    /\ filePath = None
    /\ uploads = << >>
    /\ chatting = << >>
    /\ answers = << >>
    /\ conversation = << >>
    /\ asking = << >>
    /\ handled = << >>
    /\ conc = [ c \in CallIds |-> ConcIdle ]

Next ==
    \/ Construct
    \/ StartCall
    \/ PullFirst
    \/ SignResolve
    \/ SignReject
    \/ FetchResolve
    \/ FetchReject
    \/ TextResolve
    \/ SignalAbort
    \/ callWithOptionsAborted
    \/ ReadFrame
    \/ ReadMany
    \/ ReadDone
    \/ ReadReject
    \/ PullNext
    \/ ObserverResolve
    \/ ObserverReject
    \/ Return
    \/ PullAfterEnd

Spec == Init /\ [][Next]_vars

\* The calls of every client up to the request they build.
NextBuild ==
    \/ ConstructAny
    \/ StartCall
    \/ PullFirst

SpecBuild == Init /\ [][NextBuild]_vars

\* The HTTP server under any interleaving of its clients' requests.
SpecServer == Init /\ [][NextServer]_vars

\* The UI under any order of questions and answers.
SpecUI == Init /\ [][NextUI]_vars

\* The calls of one client under any interleaving of their steps.
SpecConcurrent == Init /\ [][NextConcurrent]_vars

----------------------------------------------------------------------------
(* Properties                                                               *)

Providers == { "anthropic", "ai21", "amazon" }

\* The first dot-separated segment of id is one of the known providers.
KnownProvider(id) ==
    \E p \in Providers :
        \/ id = << p >>
        \/ Len(id) >= 2 /\ id[1] = p /\ id[2] = Dot

\* The model identifier a fields object stands for.
IdentifierOf(fields) ==
    IF fields.model = None THEN DefaultModel ELSE Get(fields.model)

(* C1: a client whose model identifier's first segment is no known          *)
(* provider, or that gets no region from fields or the environment, fails   *)
(* at construction, and after a failed construction nothing is signed and   *)
(* no request is sent.                                                      *)
C1_ConstructionFailsFast ==
    /\ constructed = "new" =>
          \A fields \in AllFields, envRegion \in EnvRegions :
              ( \/ ~KnownProvider(IdentifierOf(fields))
                \/ fields.region = None /\ envRegion = None )
              => ~Constructor(fields, envRegion).ok
    /\ constructed = "threw" =>
          /\ client = None
          /\ pc = "none"
          /\ signCount = 0
          /\ fetchCount = 0
          /\ request = None

\* A construction has failed.
C1_Witness == constructed = "threw" /\ client = None /\ call = None

(* C2: the request body is, by provider, exactly { prompt,                  *)
(* max_tokens_to_sample, temperature }, { prompt, maxTokens, temperature }  *)
(* or { inputText, textGenerationConfig: { maxTokenCount, temperature } },  *)
(* with 50 and 0 where the client has no maxTokens or temperature.          *)
C2_PayloadHasExactlyDocumentedFields ==
    request # None =>
        LET payload == Get(request).body.val
            name == Get(client).model[1]
            maxTokens == IF Get(client).maxTokens = None THEN 50
                         ELSE Get(Get(client).maxTokens)
            temperature == IF Get(client).temperature = None THEN 0
                           ELSE Get(Get(client).temperature)
            prompt == Get(call).prompt
        IN  /\ name \in Providers
            /\ name = "anthropic" =>
                  /\ DOMAIN payload = { "prompt", "max_tokens_to_sample", "temperature" }
                  /\ payload.prompt = prompt
                  /\ payload.max_tokens_to_sample = maxTokens
                  /\ payload.temperature = temperature
            /\ name = "ai21" =>
                  /\ DOMAIN payload = { "prompt", "maxTokens", "temperature" }
                  /\ payload.prompt = prompt
                  /\ payload.maxTokens = maxTokens
                  /\ payload.temperature = temperature
            /\ name = "amazon" =>
                  /\ DOMAIN payload = { "inputText", "textGenerationConfig" }
                  /\ payload.inputText = prompt
                  /\ DOMAIN payload.textGenerationConfig = { "maxTokenCount", "temperature" }
                  /\ payload.textGenerationConfig.maxTokenCount = maxTokens
                  /\ payload.textGenerationConfig.temperature = temperature

\* An ai21 request built from a client with neither maxTokens nor temperature.
C2_Witness ==
    /\ request # None
    /\ Get(client).model[1] = "ai21"
    /\ Get(client).maxTokens = None
    /\ Get(client).temperature = None
    /\ Get(request).body.val.maxTokens = 50

(* C3: no chunk with an undefined text is ever yielded: a response body     *)
(* that lacks the provider's field fails the call.                          *)
C3_NoUndefinedText ==
    \A i \in 1..Len(yielded) : yielded[i].text # None

IsJsonChunk(frame) ==
    /\ frame.headers.eventType = Some("chunk")
    /\ frame.headers.contentType = Some("application/json")

(* C5: a chunk is yielded only for a frame whose event-type is chunk and    *)
(* whose content-type is application/json; when the k-th read fails or      *)
(* delivers a frame that does not decode, the caller has got exactly k-1    *)
(* chunks and its k-th request gets the error, and a failed generator       *)
(* reads and yields nothing more.                                           *)
C5_RejectedFrameEndsStream ==
    /\ [](pc = "yielded" => (lastChunk # None /\ IsJsonChunk(Get(lastChunk))))
    /\ []((lastChunk # None /\ ~IsJsonChunk(Get(lastChunk))) =>
            (pc = "failed" /\ error.kind = "decode"))
    /\ []((pc = "failed" /\ error.kind \in { "decode", "read" }) =>
            Len(yielded) = reads - 1)
    /\ [][(pc # "failed" /\ pc' = "failed" /\ error'.kind \in { "decode", "read" }) =>
            pulls' = reads']_vars
    /\ [][pc = "failed" =>
            (pc' = "failed" /\ reads' = reads /\ yielded' = yielded
             /\ observed' = observed /\ error' = error)]_vars

\* The second frame has event-type error: one chunk was yielded before it.
C5_Witness ==
    /\ pc = "failed"
    /\ error.kind = "decode"
    /\ reads = 2
    /\ Len(yielded) = 1
    /\ Get(lastChunk).headers.eventType = Some("error")

(* C6: once the signal has fired mid-stream after N chunks, the caller has  *)
(* exactly N chunks, and the stream ends cancelled with its reader          *)
(* released.                                                                *)
C6_CancelStopsStream ==
    abortedAfter # None =>
        /\ Len(yielded) = Get(abortedAfter)
        /\ pc \in Terminal => (pc = "cancelled" /\ reader # "open")

(* C7: in no terminal state of the generator is the body's reader still     *)
(* open.                                                                    *)
C7_ReaderReleasedOnEveryExit ==
    pc \in Terminal => reader # "open"

\* The text of a chunk as a string: nothing for an undefined text.
TextOf(chunk) == IF chunk.text = None THEN "" ELSE Get(chunk.text)

\* The texts of the first n chunks yielded, concatenated in order.
RECURSIVE ConcatYielded(_)
ConcatYielded(n) ==
    IF n = 0 THEN "" ELSE ConcatYielded(n - 1) \o TextOf(yielded[n])

(* C8: when the stream completes, _call returns the texts of the chunks     *)
(* yielded, concatenated in the order of their emission ("" for none);      *)
(* when the stream fails, _call throws that error and returns nothing.      *)
C8_CallConcatenatesChunks ==
    /\ callState = "returned" =>
          /\ pc = "completed"
          /\ callResult = Some(ConcatYielded(Len(yielded)))
    /\ callState = "threw" =>
          /\ pc \in { "failed", "cancelled" }
          /\ error # NoError
          /\ callResult = None
    /\ (call # None /\ Get(call).consumer = "call") =>
          /\ pc = "completed" => callState = "returned"
          /\ pc \in { "failed", "cancelled" } => callState = "threw"

\* _call has returned the text of two chunks, "hi" then "a".
C8_Witness ==
    /\ callState = "returned"
    /\ Len(yielded) = 2
    /\ yielded[1].text = Some("hi")
    /\ yielded[2].text = Some("a")
    /\ callResult = Some("hia")

(* C9: a failure of handleLLMNewToken never ends the stream.                *)
C9_ObserverFailureContained ==
    pc = "failed" => error.kind # "observer"

Pipeline == << "build", "sign", "dispatch", "validate", "stream" >>

IsPrefix(a, b) == Len(a) <= Len(b) /\ a = SubSeq(b, 1, Len(a))

(* C10: the stages of a call happen in the order build, sign, dispatch,     *)
(* validate, stream; fetchFn is called only once sign has resolved, and a   *)
(* call whose sign failed never calls fetchFn.                              *)
C10_SignBeforeDispatch ==
    /\ IsPrefix(stages, Pipeline)
    /\ fetchCount > 0 => (signCount = 1 /\ signedRequest # None)
    /\ signedRequest # None => request # None
    /\ response # None => fetchCount = 1
    /\ reads > 0 => (response # None /\ Get(response).status \in 200..299)
    /\ error.kind = "sign" =>
          /\ pc = "failed"
          /\ fetchCount = 0
          /\ response = None
          /\ stages = << "build", "sign" >>

\* A call whose sign failed.
C10_Witness ==
    /\ pc = "failed"
    /\ error.kind = "sign"
    /\ signCount = 1
    /\ fetchCount = 0

\* C11: once a read result says done the stream is completed for good: the
\* step that completes it yields nothing, hands nothing to the observer and
\* decodes nothing (the value of the done result is not processed), and in
\* the completed stream no request of the caller reads, decodes, yields or
\* observes anything, or moves it out of completed.
C11_NothingAfterDone ==
    [][ /\ pc' = "completed" /\ pc # "completed" =>
              /\ yielded' = yielded
              /\ observed' = observed
              /\ lastChunk' = lastChunk
              /\ chunks' = chunks
              /\ reads' = reads
        /\ pc = "completed" =>
              /\ pc' = "completed"
              /\ reads' = reads
              /\ yielded' = yielded
              /\ observed' = observed
              /\ lastChunk' = lastChunk
              /\ reader' = "closed"
              /\ error' = NoError ]_vars

\* A stream completed by a done result that carried bytes, after chunks, and
\* pulled once more since: every request but the extra one was answered by a
\* read.
C11_Witness ==
    /\ pc = "completed"
    /\ doneValue = Some(Some(Frames[1]))
    /\ Len(yielded) = MaxFrames
    /\ reads = MaxFrames + 1
    /\ pulls = reads + 1

\* Whether the frame is intact, is a JSON chunk, and wraps a JSON body in
\* base64 in a JSON envelope.
WellFormed(frame) ==
    /\ frame.intact
    /\ IsJsonChunk(frame)
    /\ frame.body.enc = "json"
    /\ frame.body.val.bytes # None
    /\ Get(frame.body.val.bytes).enc = "base64"
    /\ Get(frame.body.val.bytes).val.enc = "json"

\* The response body a well-formed frame wraps.
InnerBody(frame) == Get(frame.body.val.bytes).val.val

\* The provider's text field of a response body, None when it is absent.
FieldOf(provider, body) ==
    IF provider = << "anthropic" >> THEN body.completion
    ELSE IF provider = << "ai21" >>
    THEN IF body.data = None THEN None ELSE Get(body.data).text
    ELSE body.outputText

\* A valid frame for the provider: well-formed and carrying its text field.
ValidFor(provider, frame) ==
    WellFormed(frame) /\ FieldOf(provider, InnerBody(frame)) # None

(* C12: a read that delivers one valid frame adds exactly one chunk, behind *)
(* the chunks before it, whose text is the provider's field of the body the *)
(* frame wraps (JSON envelope, base64, inner JSON) and whose metadata is    *)
(* empty; a valid frame never fails the stream; and a completed stream has  *)
(* yielded one chunk for each read before the one that said done.           *)
C12_ValidFramesYieldTheirText ==
    /\ [](pc = "completed" => Len(yielded) = reads - 1)
    /\ [][ (pc = "reading" /\ pc' \in { "yielded", "failed" } /\ lastEvents' = 1
            /\ lastChunk' # None /\ ValidFor(Provider, Get(lastChunk'))
            /\ error'.kind # "read") =>
              /\ pc' = "yielded"
              /\ yielded' = Append(yielded,
                     [ text |-> FieldOf(Provider, InnerBody(Get(lastChunk'))),
                       generationInfo |-> EmptyObject ]) ]_vars

\* An anthropic client: the frames {completion: "a"} and {completion: "hi"},
\* then done, gave the chunks "a" and "hi".
C12_Witness ==
    /\ pc = "completed"
    /\ Provider = << "anthropic" >>
    /\ lastChunk = Some(ChunkFrame(BodyOf(Some("hi"), None, None)))
    /\ reads = 3
    /\ yielded = << GenerationChunk(Some("a")), GenerationChunk(Some("hi")) >>

\* C13 (as the claim states it): when the bytes of a read held more than one
\* framed event the stream does not fail to decode them, and by the time the
\* next read is issued or the stream completes every event of every read
\* has been yielded.
C13_CoalescedEventsAllYielded ==
    lastEvents > 1 =>
        /\ ~(pc = "failed" /\ error.kind = "decode")
        /\ (pc \in { "reading", "completed" } => Len(yielded) >= reads)

\* The generator runs: a request of the caller is being answered.
Running == { "signing", "connecting", "text", "reading", "observing" }

(* C14: the transport is read only on the caller's demand: there are never  *)
(* more reads, nor more chunks, than requests; while the generator runs     *)
(* exactly one request is unanswered and while it is suspended none is; and *)
(* a read is issued, and a chunk produced, only with a request unanswered.  *)
C14_PullDriven ==
    /\ [](reads <= pulls /\ Len(yielded) <= pulls)
    /\ [](pc \in Running => pulls = Len(yielded) + 1)
    /\ [](pc \in Suspended => pulls = Len(yielded))
    /\ [][ /\ reads' # reads => pulls' = Len(yielded') + 1
          /\ yielded' # yielded => pulls = Len(yielded) + 1 ]_vars

\* The second read is awaited: two requests, two reads, one chunk so far.
C14_Witness ==
    /\ pc = "reading"
    /\ pulls = 2
    /\ reads = 2
    /\ Len(yielded) = 1

\* The texts of the chunks yielded, in order.
YieldedTexts == [ i \in 1..Len(yielded) |-> yielded[i].text ]

\* C15 (as the claim states it): when the generator has ended, with an
\* observer attached, the observer was invoked once for each chunk the
\* caller got, with the chunk's text, in order.
C15_ObserverSeesEveryChunk ==
    (pc \in Terminal /\ call # None /\ Get(call).runManager) =>
        observed = YieldedTexts

(* C17: a response whose status is no success reaches fetchFn once only:    *)
(* while its text is awaited and when the call has failed with the status    *)
(* error exactly one fetchFn call was made, none is made afterwards, and     *)
(* nothing was read.                                                         *)
C17_BadStatusNotRetried ==
    /\ []((pc = "text" \/ (pc = "failed" /\ error.kind = "status")) =>
            (fetchCount = 1 /\ reads = 0))
    /\ [][(pc \in { "text", "failed" }) => (fetchCount' = fetchCount)]_vars

\* The call failed with the status error of a 403 response.
C17_Witness ==
    /\ pc = "failed"
    /\ error.kind = "status"
    /\ error.status = Some(403)
    /\ fetchCount = 1

\* The index of the last of the first n uploads that stored a path, 0 when
\* none did.
RECURSIVE LastStored(_)
LastStored(n) ==
    IF n = 0 THEN 0
    ELSE IF uploads[n].path # None THEN n
    ELSE LastStored(n - 1)

\* The path a /chat request handled after n uploads is answered from.
PathAfter(n) ==
    IF LastStored(n) = 0 THEN DefaultFilePath
    ELSE Get(uploads[LastStored(n)].path)

(* C18: every /chat request, awaited or answered, uses the path stored by   *)
(* the last /upload handled before it, whichever client made it, and chat's *)
(* default path when none was; filePath is that one path for all clients.   *)
C18_ChatUsesLastUploadOfAnyClient ==
    /\ \A i \in 1..Len(chatting) : chatting[i].path = PathAfter(chatting[i].after)
    /\ \A i \in 1..Len(answers) : answers[i].path = PathAfter(answers[i].after)
    /\ filePath = IF LastStored(Len(uploads)) = 0 THEN None
                  ELSE uploads[LastStored(Len(uploads))].path

\* Client A uploaded a.pdf, client B then uploaded b.pdf, and A's question
\* was answered from b.pdf; a question asked before any upload was answered
\* from the default path.
C18_Witness ==
    /\ uploads = << [ client |-> "A", path |-> Some("uploads/a.pdf") ],
                    [ client |-> "B", path |-> Some("uploads/b.pdf") ] >>
    /\ \E i \in 1..Len(answers) :
          /\ answers[i].client = "A"
          /\ answers[i].after = 2
          /\ answers[i].path = "uploads/b.pdf"
    /\ \E i \in 1..Len(answers) :
          /\ answers[i].after = 0
          /\ answers[i].path = DefaultFilePath

\* C19 (as the claim states it): the conversation holds one entry for each
\* handleResp call made so far, in call order, none lost or changed.
C19_ConversationKeepsEveryEntry == conversation = handled

\* What a call yields when it runs alone on a response that delivers the
\* frames fed: the chunks of the frames up to the first one that does not
\* decode, and whether there was such a frame.
RECURSIVE Alone(_, _, _, _)
Alone(provider, fed, i, got) ==
    IF i > Len(fed) THEN [ got |-> got, failed |-> FALSE ]
    ELSE LET d == DecodeChunk(provider, fed[i]) IN
         IF d.ok THEN Alone(provider, fed, i + 1, Append(got, GenerationChunk(d.value)))
         ELSE [ got |-> got, failed |-> TRUE ]

(* C16: under every interleaving, what each call has yielded and how it has *)
(* ended are what the call yields alone on its own response: its chunks are *)
(* those of the frames its own response delivered, in order, it fails to    *)
(* decode exactly when one of these frames does not decode, and a response  *)
(* with a bad status gives it no chunk; each call reads its own response;   *)
(* and no step of a call changes the client's fields.                       *)
C16_ConcurrentCallsIndependent ==
    /\ [](\A c \in CallIds :
            LET alone == Alone(Provider, conc[c].fed, 1, << >>) IN
            conc[c].pc # "none" =>
              /\ conc[c].got = alone.got
              /\ alone.failed <=> (conc[c].pc = "failed" /\ conc[c].error = "decode")
              /\ conc[c].reader \in { 0, c }
              /\ conc[c].error = "status" <=>
                    (conc[c].status # None /\ ~StatusOk(Get(conc[c].status)))
              /\ conc[c].error = "status" => conc[c].fed = << >>)
    /\ [][constructed = "ok" => client' = client]_vars

\* Both calls are done on an amazon client; the first got two chunks, the
\* second one chunk before an error event failed it.
C16_Witness ==
    /\ client # None
    /\ Provider = << "amazon" >>
    /\ conc[1].pc = "completed"
    /\ Len(conc[1].got) = 2
    /\ conc[2].pc = "failed"
    /\ conc[2].error = "decode"
    /\ conc[2].fed = << Frames[1], Frames[11] >>
    /\ conc[2].got = << GenerationChunk(Some("hi")) >>

====
